---- MODULE Spec2Model ----
(***************************************************************************)
(* Model of src/bitbucket/repositories.js: RepositoriesApi(api).           *)
(*                                                                         *)
(* A JavaScript string is a sequence of one-character strings; any other   *)
(* JavaScript value is a tagged record (Undefined, Bool, Str, Arr, Obj).   *)
(* The injected transport `api` records every request it is handed in      *)
(* `sent` and answers with an opaque result.                               *)
(***************************************************************************)
EXTENDS Integers, Sequences, FiniteSets, TLC

(* ------------------------------ bounds --------------------------------- *)
MaxNameLen == 4
MaxIdLen == 2
MaxStates == 2
MaxFields == 1

(* --------------------------- JavaScript values -------------------------- *)
Undefined == [t |-> "undefined"]
Bool(b) == [t |-> "boolean", b |-> b]
Str(s) == [t |-> "string", s |-> s]
Arr(a) == [t |-> "array", a |-> a]
TransportResult == [t |-> "result"]

isString(x) == x.t = "string"
isBoolean(x) == x.t = "boolean"
isArray(x) == x.t = "array"

\* JavaScript truthiness, as tested by `!x` and `if (x)`
Truthy(x) ==
  CASE x.t = "undefined" -> FALSE
    [] x.t = "boolean" -> x.b
    [] x.t = "string" -> Len(x.s) > 0
    [] OTHER -> TRUE

(* ------------------------------ characters ------------------------------ *)
Upper == <<"A","B","C","D","E","F","G","H","I","J","K","L","M",
           "N","O","P","Q","R","S","T","U","V","W","X","Y","Z">>
Lower == <<"a","b","c","d","e","f","g","h","i","j","k","l","m",
           "n","o","p","q","r","s","t","u","v","w","x","y","z">>
Digits == {"0","1","2","3","4","5","6","7","8","9"}
Range(s) == {s[i] : i \in DOMAIN s}

\* \w of a JavaScript regular expression: [A-Za-z0-9_]
isWordChar(c) == c \in Range(Upper) \cup Range(Lower) \cup Digits \cup {"_"}

\* the characters encodeURI leaves alone: unreserved marks and reserved characters
UriUnescaped ==
  Range(Upper) \cup Range(Lower) \cup Digits
    \cup {"-", "_", ".", "!", "~", "*", "'", "(", ")"}
    \cup {";", "/", "?", ":", "@", "&", "=", "+", "$", ",", "#"}

\* the percent escape of the other ASCII characters the model uses
encodeURIChar(c) ==
  CASE c \in UriUnescaped -> <<c>>
    [] c = " " -> <<"%", "2", "0">>
    [] c = "\"" -> <<"%", "2", "2">>
    [] c = "%" -> <<"%", "2", "5">>

RECURSIVE encodeURI(_)
encodeURI(s) ==
  IF s = <<>> THEN <<>> ELSE encodeURIChar(Head(s)) \o encodeURI(Tail(s))

(* --------------------------- slug derivation ---------------------------- *)
\* .replace(/['"]/g, '')
removeQuotes_kept(s) == s
removeQuotes(s) == SelectSeq(s, LAMBDA c : c \notin {"'", "\""})

\* .replace(/\W/g, '-')
replaceNonWord(s) == [i \in DOMAIN s |-> IF isWordChar(s[i]) THEN s[i] ELSE "-"]

\* .replace(/--+/g, '-')
collapseDashes_skipped(s) == s
RECURSIVE collapseDashes(_)
collapseDashes(s) ==
  IF Len(s) < 2 THEN s
  ELSE IF s[1] = "-" /\ s[2] = "-" THEN collapseDashes(Tail(s))
  ELSE <<s[1]>> \o collapseDashes(Tail(s))

\* .replace(/^-/, '')
stripLeadingDash(s) == IF Len(s) > 0 /\ s[1] = "-" THEN Tail(s) ELSE s

\* .replace(/-$/, '')
stripTrailingDash(s) ==
  IF Len(s) > 0 /\ s[Len(s)] = "-" THEN SubSeq(s, 1, Len(s) - 1) ELSE s

\* .toLowerCase()
toLowerCase_skipped(s) == s
toLowerCase(s) ==
  [i \in DOMAIN s |->
     IF s[i] \in Range(Upper)
     THEN Lower[CHOOSE k \in DOMAIN Upper : Upper[k] = s[i]]
     ELSE s[i]]

\* const repoSlug = repo.name.replace(...)...toLowerCase()
repoSlugOf(name) ==
  toLowerCase(stripTrailingDash(stripLeadingDash(
    collapseDashes(replaceNonWord(removeQuotes(name))))))

(* ------------------------------ lodash ---------------------------------- *)
\* constants.pullRequest.states (./constants): the closed enumeration
OPEN == <<"O","P","E","N">>
MERGED == <<"M","E","R","G","E","D">>
DECLINED == <<"D","E","C","L","I","N","E","D">>
SUPERSEDED == <<"S","U","P","E","R","S","E","D","E","D">>
states == {OPEN, MERGED, DECLINED, SUPERSEDED}

\* _.includes(constants.pullRequest.states, value): value is one of the
\* object's property values
includesStates(value) == isString(value) /\ value.s \in states

\* the elements _.find iterates over: the elements of an array, the
\* characters of a string (which is array-like), nothing for undefined
iterable(collection) ==
  CASE isArray(collection) -> collection.a
    [] isString(collection) -> [i \in DOMAIN collection.s |-> Str(<<collection.s[i]>>)]
    [] OTHER -> <<>>

\* what Array.prototype.join makes of one element
toJoinString(x) == IF isString(x) THEN x.s ELSE <<>>

\* array.join(',')
RECURSIVE join(_)
join(a) ==
  IF Len(a) = 0 THEN <<>>
  ELSE IF Len(a) = 1 THEN toJoinString(a[1])
  ELSE toJoinString(a[1]) \o <<",">> \o join(Tail(a))

\* _.get(object, path): undefined as soon as a property is missing
RECURSIVE get(_, _)
get(object, path) ==
  IF path = <<>> THEN object
  ELSE IF object.t = "object" /\ Head(path) \in DOMAIN object
       THEN get(object[Head(path)], Tail(path))
       ELSE Undefined

(* ----------------------- pull-request parameters ------------------------ *)
\* let stateArray = state; if (!stateArray) ... else if (!_.isArray(stateArray)) ...
stateArrayOf(state) ==
  IF ~Truthy(state) THEN Arr(<<Str(OPEN)>>)
  ELSE IF ~isArray(state) THEN Arr(<<state>>)
  ELSE state

\* const hasInvalidState = _.find(state, (stateElement) => !_.includes(...))
\* _.find yields the first element the predicate accepts, undefined when
\* there is none
hasInvalidState(state) ==
  LET elements == iterable(state)
      hits == {i \in DOMAIN elements : ~includesStates(elements[i])}
  IN IF hits = {} THEN Undefined
     ELSE elements[CHOOSE i \in hits : \A j \in hits : i <= j]

\* apiParameters.state
stateParameter(state) ==
  LET stateArray == IF Truthy(hasInvalidState(state))
                    THEN Arr(<<Str(OPEN)>>)
                    ELSE stateArrayOf(state)
  IN join(stateArray.a)

\* if (!_.isArray(fields) || fields.length < 1) throw
fieldsRejected_emptyAllowed(fields) == ~isArray(fields)
fieldsRejected(fields) == ~isArray(fields) \/ Len(fields.a) < 1

\* fields.map((field) => `+${field}`).join(',')
fieldsParameter(fields) ==
  join([i \in DOMAIN fields.a |-> Str(<<"+">> \o toJoinString(fields.a[i]))])

\* if (!repo || !_.isBoolean(repo.is_private) || !_.isString(repo.name)) throw
repoRejected(repo) ==
  ~Truthy(repo) \/ ~isBoolean(repo.is_private) \/ ~isString(repo.name)

(* ------------------------------- paths ---------------------------------- *)
Repositories == <<"r","e","p","o","s","i","t","o","r","i","e","s">>
Slash == <<"/">>

\* `repositories/${encodeURI(workspace)}`
workspacePath(workspace) == Repositories \o Slash \o encodeURI(workspace)

\* `repositories/${encodeURI(workspace)}/${encodeURI(repoSlug)}`
repoPath(workspace, repoSlug) ==
  workspacePath(workspace) \o Slash \o encodeURI(repoSlug)

\* `repositories/${encodeURI(workspace)}/${encodeURI(repoSlug)}/commit/${sha}`
commitPath(workspace, repoSlug, sha) ==
  repoPath(workspace, repoSlug) \o <<"/","c","o","m","m","i","t","/">> \o sha

(* ----------------------------- responses -------------------------------- *)
\* extractResponseBody (./helpers): the `body` property of an API response,
\* or the argument itself when it already is a body
extractResponseBody(response) ==
  IF "body" \in DOMAIN response /\ Truthy(response.body) THEN response.body ELSE response

\* _.get(extractResponseBody(response), ['parent', 'links', 'self', 'href'])
parentURL(response) ==
  get(extractResponseBody(response), <<"parent", "links", "self", "href">>)

\* _.get(extractResponseBody(response), ['links', 'forks', 'href'])
forksURL_parentLink(response) == parentURL(response)
forksURL(response) == get(extractResponseBody(response), <<"links", "forks", "href">>)

(* ------------------------------ inputs ---------------------------------- *)
RECURSIVE StringsUpTo(_, _)
StringsUpTo(alphabet, n) ==
  IF n = 0 THEN {<<>>}
  ELSE LET shorter == StringsUpTo(alphabet, n - 1)
       IN shorter \cup {Append(s, c) : s \in shorter, c \in alphabet}

RECURSIVE SeqsUpTo(_, _)
SeqsUpTo(elements, n) ==
  IF n = 0 THEN {<<>>}
  ELSE LET shorter == SeqsUpTo(elements, n - 1)
       IN shorter \cup {Append(s, e) : s \in shorter, e \in elements}

NameChars == {"A", "b", "_", "-", "'", "\"", " "}
MyReposName == <<"M","y"," ","R","e","p","o","'","s"," ","N","a","m","e","!","!">>
DashLeading == <<"-","l","e","a","d","i","n","g">>
TrailingDash == <<"t","r","a","i","l","i","n","g","-">>
Names == StringsUpTo(NameChars, MaxNameLen) \cup {MyReposName, DashLeading, TrailingDash}

IdChars == {"w", " "}
Ids == StringsUpTo(IdChars, MaxIdLen)

BOGUS == <<"B","O","G","U","S">>
Tokens == {Str(OPEN), Str(MERGED), Str(DECLINED), Str(SUPERSEDED), Str(BOGUS), Str(<<>>)}
StateElements == {Str(OPEN), Str(MERGED), Str(BOGUS), Str(<<>>)}
StateInputs == {Undefined} \cup Tokens \cup {Arr(a) : a \in SeqsUpTo(StateElements, MaxStates)}

FieldNames == {<<"i","d">>, <<"v",".","t">>}
FieldsInputs ==
  {Undefined, Str(<<"i","d">>)}
    \cup {Arr(a) : a \in SeqsUpTo({Str(f) : f \in FieldNames}, MaxFields)}
Options(state, fields) == [t |-> "object", state |-> state, fields |-> fields]
OptionsInputs ==
  {Undefined} \cup {Options(s, f) : s \in StateInputs, f \in FieldsInputs}

Repo(name, is_private) == [t |-> "object", name |-> name, is_private |-> is_private]
RepoInputs ==
  {Undefined}
    \cup {Repo(Str(n), Bool(b)) : n \in Names, b \in BOOLEAN}
    \cup {Repo(n, p) : n \in {Undefined, Bool(TRUE), Str(<<"b">>), Str(<<>>)},
                       p \in {Undefined, Str(<<"b">>), Bool(TRUE)}}

Href(url) == [t |-> "object", href |-> url]
HrefInputs == {Undefined, Href(Undefined), Href(Str(<<>>)), Href(Str(<<"u">>)), Href(Str(<<"v">>))}
LinksInputs ==
  {Undefined} \cup {[t |-> "object", forks |-> f, self |-> s] : f, s \in HrefInputs}
BodyInputs ==
  {[t |-> "object", links |-> l, parent |-> p] :
     l \in LinksInputs,
     p \in {Undefined} \cup {[t |-> "object", links |-> pl] : pl \in LinksInputs}}
ResponseInputs == BodyInputs \cup {[t |-> "object", body |-> b] : b \in BodyInputs}

ArgsInputs ==
  [form : {"create"}, workspace : Ids, repo : RepoInputs]
    \cup [form : {"workspace"}, workspace : Ids]
    \cup [form : {"repo"}, workspace : Ids, repoSlug : Ids]
    \cup [form : {"pullRequest"}, workspace : Ids, repoSlug : Ids,
          pullRequest : {Undefined, [t |-> "object"]}]
    \cup [form : {"commit"}, workspace : Ids, repoSlug : Ids, sha : Ids]
    \cup [form : {"pullRequests"}, workspace : Ids, repoSlug : Ids, state : StateInputs]
    \cup [form : {"pullRequestsWithFields"}, workspace : Ids, repoSlug : Ids,
          options : OptionsInputs]
    \cup [form : {"response"}, response : ResponseInputs]

(* ------------------------------- state ---------------------------------- *)
VARIABLES
  args,       \* the arguments the caller passes
  op,         \* the operation the caller invoked, "" before the call
  outcome,    \* "pending", "returned", or the kind of the error thrown
  ret,        \* the value returned to the caller
  repoSlug,   \* create's local constant repoSlug, once derived
  sent        \* the requests handed to the transport, in order

vars == <<args, op, outcome, ret, repoSlug, sent>>

Init ==
  /\ args \in ArgsInputs
  /\ op = ""
  /\ outcome = "pending"
  /\ ret = Undefined
  /\ repoSlug = Undefined
  /\ sent = <<>>

\* throw new Error(...)
Throw(kind) ==
  /\ outcome' = kind
  /\ UNCHANGED <<args, ret, repoSlug, sent>>

\* return api.get(...) / api.post(...) / api.request.doPrebuiltSend(...)
Send(request) ==
  /\ sent' = Append(sent, request)
  /\ ret' = TransportResult
  /\ outcome' = "returned"
  /\ UNCHANGED args

Get(path) == [method |-> "get", path |-> path]
GetWith(path, parameters) == [method |-> "get", path |-> path, parameters |-> parameters]
Post(path, body) == [method |-> "post", path |-> path, body |-> body]
DoPrebuiltSend(url) == [method |-> "doPrebuiltSend", url |-> url]

(* ------------------------------ operations ------------------------------ *)
create ==
  /\ op' = "create"
  /\ args.form = "create"
  /\ outcome = "pending"
  /\ IF repoRejected(args.repo)
     THEN Throw("InvalidArgument")
     ELSE LET slug == repoSlugOf(args.repo.name.s)
          IN /\ repoSlug' = Str(slug)
             /\ Send(Post(repoPath(args.workspace, slug), args.repo))

createPullRequest ==
  /\ op' = "createPullRequest"
  /\ args.form = "pullRequest"
  /\ outcome = "pending"
  /\ Send(Post(repoPath(args.workspace, args.repoSlug)
                 \o <<"/","p","u","l","l","r","e","q","u","e","s","t","s">>,
               args.pullRequest))
  /\ UNCHANGED repoSlug

get_ ==
  /\ op' = "get"
  /\ args.form = "repo"
  /\ outcome = "pending"
  /\ Send(Get(repoPath(args.workspace, args.repoSlug)))
  /\ UNCHANGED repoSlug

getBranches ==
  /\ op' = "getBranches"
  /\ args.form = "repo"
  /\ outcome = "pending"
  /\ Send(Get(repoPath(args.workspace, args.repoSlug)
                \o <<"/","r","e","f","s","/","b","r","a","n","c","h","e","s">>))
  /\ UNCHANGED repoSlug

getCommit ==
  /\ op' = "getCommit"
  /\ args.form = "commit"
  /\ outcome = "pending"
  /\ Send(Get(commitPath(args.workspace, args.repoSlug, args.sha)))
  /\ UNCHANGED repoSlug

getPullRequests ==
  /\ op' = "getPullRequests"
  /\ args.form = "pullRequests"
  /\ outcome = "pending"
  /\ Send(GetWith(repoPath(args.workspace, args.repoSlug)
                    \o <<"/","p","u","l","l","r","e","q","u","e","s","t","s">>,
                  [t |-> "object", state |-> Str(stateParameter(args.state))]))
  /\ UNCHANGED repoSlug

getPullRequestsWithFields ==
  /\ op' = "getPullRequestsWithFields"
  /\ args.form = "pullRequestsWithFields"
  /\ outcome = "pending"
  /\ LET options == IF args.options = Undefined
                    THEN Options(Undefined, Undefined)
                    ELSE args.options
     IN IF fieldsRejected(options.fields)
        THEN Throw("InvalidArgument")
        ELSE /\ Send(GetWith(repoPath(args.workspace, args.repoSlug)
                               \o <<"/","p","u","l","l","r","e","q","u","e","s","t","s">>,
                             [t |-> "object",
                              state |-> Str(stateParameter(options.state)),
                              fields |-> Str(fieldsParameter(options.fields))]))
             /\ UNCHANGED repoSlug

getByWorkspace ==
  /\ op' = "getByWorkspace"
  /\ args.form = "workspace"
  /\ outcome = "pending"
  /\ Send(Get(workspacePath(args.workspace)))
  /\ UNCHANGED repoSlug

getForks ==
  /\ op' = "getForks"
  /\ args.form = "repo"
  /\ outcome = "pending"
  /\ Send(Get(repoPath(args.workspace, args.repoSlug) \o <<"/","f","o","r","k","s">>))
  /\ UNCHANGED repoSlug

getForksFromResponse ==
  /\ op' = "getForksFromResponse"
  /\ args.form = "response"
  /\ outcome = "pending"
  /\ LET prebuiltURL == forksURL(args.response)
     IN IF ~Truthy(prebuiltURL)
        THEN Throw("MissingLink")
        ELSE Send(DoPrebuiltSend(prebuiltURL)) /\ UNCHANGED repoSlug

getParentFromResponse ==
  /\ op' = "getParentFromResponse"
  /\ args.form = "response"
  /\ outcome = "pending"
  /\ LET prebuiltURL == parentURL(args.response)
     IN IF ~Truthy(prebuiltURL)
        THEN Throw("MissingLink")
        ELSE Send(DoPrebuiltSend(prebuiltURL)) /\ UNCHANGED repoSlug

hasParent ==
  /\ op' = "hasParent"
  /\ args.form = "response"
  /\ outcome = "pending"
  /\ ret' = Bool(Truthy(extractResponseBody(args.response).parent))
  /\ outcome' = "returned"
  /\ UNCHANGED <<args, repoSlug, sent>>

Next ==
  \/ create
  \/ createPullRequest
  \/ get_
  \/ getBranches
  \/ getCommit
  \/ getPullRequests
  \/ getPullRequestsWithFields
  \/ getByWorkspace
  \/ getForks
  \/ getForksFromResponse
  \/ getParentFromResponse
  \/ hasParent

Spec == Init /\ [][Next]_vars

(* ------------------------------ properties ------------------------------ *)
PullRequestOps == {"getPullRequests", "getPullRequestsWithFields"}

\* the state argument of a pull-request query
StateArg ==
  IF args.form = "pullRequests" THEN args.state
  ELSE IF args.options = Undefined THEN Undefined ELSE args.options.state

\* the pull-request query went out to the transport
QuerySent == op \in PullRequestOps /\ outcome = "returned"

\* the state filter the transport was handed
FilterSent == sent[1].parameters.state.s

RECURSIVE SplitComma(_)
SplitComma(s) ==
  IF \A i \in DOMAIN s : s[i] # ","
  THEN <<s>>
  ELSE LET k == CHOOSE i \in DOMAIN s : s[i] = "," /\ \A j \in 1..(i - 1) : s[j] # ","
       IN <<SubSeq(s, 1, k - 1)>> \o SplitComma(SubSeq(s, k + 1, Len(s)))

\* the tokens of a serialized filter
FilterTokens(s) == IF s = <<>> THEN <<>> ELSE SplitComma(s)

\* C1: a state that is one valid token, not a sequence, reaches the
\* transport as exactly that token.
C1_SingleTokenKept ==
  (QuerySent /\ isString(StateArg) /\ StateArg.s \in states)
    => FilterTokens(FilterSent) = <<StateArg.s>>

\* C2: a sequence of tokens with any element outside the enumeration is
\* replaced by [OPEN]; any other sequence is sent unchanged, in order.
C2_WholeOrNothing ==
  (QuerySent /\ isArray(StateArg))
    => IF \E i \in DOMAIN StateArg.a : StateArg.a[i].s \notin states
       THEN FilterSent = OPEN
       ELSE FilterSent = join(StateArg.a)

\* C3: whatever the state argument, the filter sent is a non-empty sequence
\* of tokens of the enumeration.
C3_FilterNonEmptyValid ==
  QuerySent
    => /\ FilterTokens(FilterSent) # <<>>
       /\ \A i \in DOMAIN FilterTokens(FilterSent) : FilterTokens(FilterSent)[i] \in states

\* create's arguments fail its precondition: repo missing, name missing or
\* not a string, privacy flag not a boolean
CreateArgsInvalid ==
  \/ args.repo = Undefined
  \/ args.repo.name.t # "string"
  \/ args.repo.is_private.t # "boolean"

\* the fields list is missing, not an array, or empty
FieldsArgInvalid ==
  \/ args.options = Undefined
  \/ args.options.fields.t # "array"
  \/ args.options.fields.a = <<>>

\* C4: a create or getPullRequestsWithFields call whose arguments fail
\* validation raises InvalidArgument with no transport call made; one that
\* passes validation makes exactly one transport call.
C4_ValidationPrecedesTransport ==
  /\ op = "create" =>
       IF CreateArgsInvalid
       THEN outcome = "InvalidArgument" /\ sent = <<>>
       ELSE outcome = "returned" /\ Len(sent) = 1
  /\ op = "getPullRequestsWithFields" =>
       IF FieldsArgInvalid
       THEN outcome = "InvalidArgument" /\ sent = <<>>
       ELSE outcome = "returned" /\ Len(sent) = 1

C4_Witness ==
  /\ op = "getPullRequestsWithFields"
  /\ args.options # Undefined
  /\ args.options.fields = Arr(<<>>)
  /\ outcome = "InvalidArgument"
  /\ sent = <<>>

\* C5: create called with the empty string as name and a boolean privacy
\* flag fails with InvalidArgument before deriving a slug and before any
\* transport call.
C5_EmptyNameRejected ==
  (/\ op = "create"
   /\ args.repo # Undefined
   /\ args.repo.name = Str(<<>>)
   /\ isBoolean(args.repo.is_private))
    => outcome = "InvalidArgument" /\ repoSlug = Undefined /\ sent = <<>>

\* C6: the slug derived in create never contains two consecutive dashes and
\* never starts or ends with a dash.
C6_SlugDashes ==
  isString(repoSlug) =>
    LET slug == repoSlug.s
    IN /\ \A i \in 1..(Len(slug) - 1) : ~(slug[i] = "-" /\ slug[i + 1] = "-")
       /\ Len(slug) > 0 => slug[1] # "-" /\ slug[Len(slug)] # "-"

C6_Witness ==
  /\ op = "create"
  /\ repoSlug = Str(<<"a">>)
  /\ args.repo.name = Str(<<"-", " ", "A">>)

\* C7: every character of the slug derived in create is a lowercase letter,
\* a digit, a dot, an underscore or a dash.
C7_SlugAlphabet ==
  isString(repoSlug) =>
    \A i \in DOMAIN repoSlug.s :
      repoSlug.s[i] \in Range(Lower) \cup Digits \cup {".", "_", "-"}

C7_Witness ==
  /\ op = "create"
  /\ repoSlug = Str(<<"a", "_">>)
  /\ args.repo.name = Str(<<"A", "'", "_">>)

\* the examples of slug derivation, with the slug expected for the first
ExampleSlugs(first) ==
  /\ args.repo.name = Str(MyReposName) => repoSlug = Str(first)
  /\ args.repo.name = Str(DashLeading) => repoSlug = Str(<<"l","e","a","d","i","n","g">>)
  /\ args.repo.name = Str(TrailingDash) => repoSlug = Str(<<"t","r","a","i","l","i","n","g">>)

\* C8 as stated: the name "My Repo's Name!!" derives to "my-repo-s-name",
\* "-leading" to "leading" and "trailing-" to "trailing".
C8_Original ==
  (op = "create" /\ outcome = "returned")
    => ExampleSlugs(<<"m","y","-","r","e","p","o","-","s","-","n","a","m","e">>)

\* C8 amended: the steps run in the stated order, so the quote of
\* "My Repo's Name!!" vanishes and the name derives to "my-repos-name";
\* "-leading" derives to "leading" and "trailing-" to "trailing".
C8_Amended ==
  (op = "create" /\ outcome = "returned")
    => ExampleSlugs(<<"m","y","-","r","e","p","o","s","-","n","a","m","e">>)

C8_Witness ==
  /\ op = "create"
  /\ outcome = "returned"
  /\ args.repo.name = Str(MyReposName)
  /\ isString(repoSlug)

\* C9: every path handed to the transport holds its identifiers
\* percent-encoded: no character of the path is one a URI cannot hold raw.
C9_PathsEncoded ==
  \A k \in DOMAIN sent :
    "path" \in DOMAIN sent[k] =>
      \A i \in DOMAIN sent[k].path : sent[k].path[i] \in UriUnescaped \cup {"%"}

\* the body of the response argument
BodyArg == IF "body" \in DOMAIN args.response THEN args.response.body ELSE args.response

\* the forks link of the response argument, Undefined when absent
ForksLinkArg ==
  IF BodyArg.links = Undefined \/ BodyArg.links.forks = Undefined
  THEN Undefined
  ELSE BodyArg.links.forks.href

\* the parent link of the response argument, Undefined when absent
ParentLinkArg ==
  IF \/ BodyArg.parent = Undefined
     \/ BodyArg.parent.links = Undefined
     \/ BodyArg.parent.links.self = Undefined
  THEN Undefined
  ELSE BodyArg.parent.links.self.href

\* the response argument holds the link: a non-empty URL string
Held(link) == isString(link) /\ link.s # <<>>

\* C10 as stated: an accessor returns the link itself and makes no transport
\* call; without the link it fails with MissingLink, again with no call.
C10_Original ==
  /\ op = "getForksFromResponse" =>
       /\ sent = <<>>
       /\ IF Held(ForksLinkArg)
          THEN outcome = "returned" /\ ret = ForksLinkArg
          ELSE outcome = "MissingLink"
  /\ op = "getParentFromResponse" =>
       /\ sent = <<>>
       /\ IF Held(ParentLinkArg)
          THEN outcome = "returned" /\ ret = ParentLinkArg
          ELSE outcome = "MissingLink"

\* what an accessor does with the link it looks up
Dereferenced(link) ==
  IF Held(link)
  THEN outcome = "returned" /\ sent = <<DoPrebuiltSend(link)>> /\ ret = TransportResult
  ELSE outcome = "MissingLink" /\ sent = <<>> /\ ret = Undefined

\* C10 amended: given a body that holds a non-empty links.forks.href (resp.
\* parent.links.self.href), the accessor hands exactly that URL to the
\* transport in one doPrebuiltSend call and returns the transport's result;
\* given a body without it, it fails with MissingLink and makes no
\* transport call.
C10_Amended ==
  /\ op = "getForksFromResponse" => Dereferenced(ForksLinkArg)
  /\ op = "getParentFromResponse" => Dereferenced(ParentLinkArg)

C10_Witness ==
  /\ op = "getForksFromResponse"
  /\ ForksLinkArg = Str(<<"u">>)
  /\ ParentLinkArg = Str(<<"v">>)
  /\ outcome = "returned"

====
